---- MODULE Spec2Model ----
(***************************************************************************)
(* LocalDiscoveryUIHandler (chrome/browser/ui/webui/local_discovery):      *)
(* the device registry fed by the privet device lister, and the            *)
(* registration coordinator that drives resolution, the register           *)
(* operation, the cloud print account manager and the confirm flow.        *)
(*                                                                         *)
(* The handler runs on one thread: every action below is one whole         *)
(* handler or callback.  Collaborator objects (resolution, http client,    *)
(* register/info operation, account manager, confirm flow) live in `heap`; *)
(* the handler's scoped_ptr members hold their ids.  An object can call    *)
(* back only while it is in the heap.                                      *)
(***************************************************************************)
EXTENDS Integers, Sequences, FiniteSets, TLC

\* ------------------------------------------------------------------ bounds
\* operator requests (registerDevice, info, chooseUser) handled in one run
MaxRequests == 3
\* lister events in one discovery run
MaxEvents == 4
\* requests of the registration that follows a failure (register, choose)
RecoveryRequests == 2
\* accounts in a resolver's list, where all lists are tried
MaxAccounts == 3

\* --------------------------------------------------------------- constants
NULL == 0
kAccountIndexUseOAuth2 == -1
HTTP_OK == 200

\* (a format that names another path)
kPrivetClaimURLFormat(base_url, token) == base_url \o "/claim?token=" \o token

kPrivetAutomatedClaimURLFormat(base_url, token) == base_url \o "/confirm?token=" \o token

\* ------------------------------------------------------------ input domains
Names == {"p1", "p2"}
\* the devices the lister reports while requests are handled; "p2" is a name the
\* page still sends for a device the lister does not report
Listed == {"p1"}
Users == {"a@x"}
UserIndexes == {kAccountIndexUseOAuth2, 0, 2}
Tokens == {"tok"}
XsrfTokens == {"x1", "x2"}
DeviceIds == {"dev-42"}
ConfirmStatuses == {"SUCCESS", "ERROR_NETWORK"}
FailureReasons == {"FAILURE_NETWORK", "FAILURE_HTTP_ERROR"}
HttpCodes == {HTTP_OK, 404}
JsonValues == {"null", "json"}
SyncAccounts == {"a@x"}
AccountLists == {<<"b@x", "a@x", "c@x">>}
\* every resolver list and every signed-in account ("": none), for the runs that
\* look at the list offered to the operator
AllAccountLists == UNION {[1..n -> {"a@x", "b@x", "c@x"}] : n \in 0..MaxAccounts}
AllSyncAccounts == {"", "a@x", "b@x"}
HandlerIds == {1, 2, 3}

\* DeviceDescription(): what std::map::operator[] inserts for a missing key.
DefaultDescription ==
  [host |-> "", port |-> 0, ip_address |-> <<>>, url |-> "", id |-> ""]

Descriptions ==
  { [host |-> "h1", port |-> 80, ip_address |-> <<>>, url |-> "https://cp", id |-> ""],
    [host |-> "h2", port |-> 8080, ip_address |-> <<10, 0, 0, 2>>, url |-> "https://cp2",
     id |-> "dev-1"] }

\* the description the lister reports for a device while requests are handled
DescriptionOf(name) ==
  IF name = "p1"
    THEN [host |-> "h1", port |-> 80, ip_address |-> <<>>, url |-> "https://cp", id |-> ""]
    ELSE [host |-> "h2", port |-> 8080, ip_address |-> <<10, 0, 0, 2>>,
          url |-> "https://cp2", id |-> "dev-1"]

VARIABLES
  device_descriptions_,          \* std::map name -> DeviceDescription
  current_register_device_,
  current_register_user_index_,
  xsrf_token_for_primary_user_,
  privet_lister_,                \* "null" | "impl" | "mock"
  privet_http_factory_,          \* "null" | "impl"
  privet_resolution_,            \* scoped_ptr members: an id of heap, or NULL
  current_http_client_,
  current_register_operation_,
  current_info_operation_,
  cloud_print_account_manager_,
  confirm_api_call_flow_,
  heap,                          \* id -> live collaborator object
  collab,                        \* what HandleStart created; whether the lister runs
  handlers,                      \* per handler instance: lifecycle and is_visible_
  g_num_visible,
  crashed,                       \* a null scoped_ptr was dereferenced
  nRequests,                     \* operator requests handled so far
  last,                          \* the handler that ran last, with its inputs
  web_ui,                        \* its CallJavascriptFunction calls, in order
  calls,                         \* its calls on collaborators, in order
  mon                            \* observers of whole runs (see Observe)

session == <<current_register_device_, current_register_user_index_,
             xsrf_token_for_primary_user_>>
ptrs == <<privet_resolution_, current_http_client_, current_register_operation_,
          current_info_operation_, cloud_print_account_manager_, confirm_api_call_flow_>>
disc == <<privet_lister_, privet_http_factory_, collab>>
vis == <<handlers, g_num_visible>>
registration == <<device_descriptions_, session, ptrs, disc, heap, nRequests, crashed>>
vars == <<registration, vis, last, web_ui, calls, mon>>

\* ----------------------------------------------------------------- helpers
\* std::map::count(key) != 0
MapHas(m, name) == name \in DOMAIN m

\* std::map::operator[]: inserts a default-constructed value for a missing key.
MapIndex(m, name) ==
  IF name \in DOMAIN m THEN m
  ELSE [n \in DOMAIN m \cup {name} |-> IF n = name THEN DefaultDescription ELSE m[n]]

\* device_descriptions_[name] = description
MapAssign(m, name, description) ==
  [n \in DOMAIN m \cup {name} |-> IF n = name THEN description ELSE m[n]]

\* std::map::erase(key)
MapEraseNothing(m, name) == m

MapErase(m, name) == [n \in DOMAIN m \ {name} |-> m[n]]

\* scoped_ptr: the object a scoped_ptr gives up is deleted (p may be NULL).
DeleteLeaks(h, p) == h

Delete(h, p) == [i \in DOMAIN h \ {p} |-> h[i]]

\* the address of a new object: the lowest one free in the arena of its kind
Arena(kind) ==
  CASE kind = "resolution" -> 10 [] kind = "client" -> 20 [] kind = "register" -> 30
    [] kind = "info" -> 40 [] kind = "account" -> 50 [] kind = "confirm" -> 60

NewId(h, kind) ==
  CHOOSE i \in (Arena(kind) + 1)..(Arena(kind) + 9) :
    /\ i \notin DOMAIN h
    /\ \A j \in (Arena(kind) + 1)..(Arena(kind) + 9) : j \notin DOMAIN h => i <= j

New(h, i, obj) == [j \in DOMAIN h \cup {i} |-> IF j = i THEN obj ELSE h[j]]

SetSt(h, i, st) == [h EXCEPT ![i].st = st]

\* A collaborator that has made its last callback: nothing of it matters any more
\* but that the handler still owns it.
Done(h, i) == [h EXCEPT ![i] = [kind |-> h[i].kind, st |-> "done"]]

Call(fn, args) == [fn |-> fn, args |-> args]

Ran(h, args) == [h |-> h, args |-> args]

RECURSIVE JoinDots(_)
JoinDots(bytes) ==
  IF Len(bytes) = 0 THEN ""
  ELSE IF Len(bytes) = 1 THEN ToString(bytes[1])
  ELSE ToString(bytes[1]) \o "." \o JoinDots(Tail(bytes))

\* net::IPAddressToString
IPAddressToString(ip_address) == JoinDots(ip_address)

\* base::Value::CreateNullValue()
NullValue == [null |-> TRUE]

\* the dictionary DeviceChanged hands to onServiceUpdate
ServiceInfoUnregistered(description) ==
  [domain |-> description.host, port |-> description.port, ip |-> "",
   lastSeen |-> "unknown", registered |-> FALSE]

ServiceInfo(description) ==
  [domain |-> description.host,
   port |-> description.port,
   ip |-> IF description.ip_address # <<>> THEN IPAddressToString(description.ip_address)
          ELSE "",
   lastSeen |-> "unknown",
   registered |-> description.id # ""]

\* ------------------------------------------------------ collaborator objects
\* name: the device the object works for
PrivetHTTPResolution(name, address, callback, user) ==
  [kind |-> "resolution", st |-> "pending", name |-> name, address |-> address,
   callback |-> callback, user |-> user]

PrivetHTTPClient(name) == [kind |-> "client", st |-> "live", name |-> name]

PrivetRegisterOperation(user, name) ==
  [kind |-> "register", st |-> "started", user |-> user, name |-> name]

PrivetInfoOperation(name) == [kind |-> "info", st |-> "started", name |-> name]

CloudPrintAccountManager(url, index, callback, claim_url) ==
  [kind |-> "account", st |-> "pending", url |-> url, index |-> index,
   callback |-> callback, claim_url |-> claim_url]

PrivetConfirmApiCallFlow(auth, user_index, xsrf_token, url) ==
  [kind |-> "confirm", st |-> "pending", auth |-> auth, user_index |-> user_index,
   xsrf_token |-> xsrf_token, url |-> url]

Objects(kind) == {i \in DOMAIN heap : heap[i].kind = kind}

Live(kind, st) == {i \in Objects(kind) : heap[i].st = st}

\* the list OnCloudPrintAccountsResolved hands to requestUser
\* (a loop that counts the entries it appends instead of the accounts it visits)
AnnotateRenumbered(accounts, account_index, sync_account) ==
  LET kept == SelectSeq(accounts, LAMBDA x : x # sync_account)
  IN [k \in 1..Len(kept) |-> <<k - 1, kept[k]>>]

RECURSIVE AnnotateFrom(_, _, _)
AnnotateFrom(accounts, account_index, sync_account) ==
  IF account_index >= Len(accounts) THEN <<>>
  ELSE (IF accounts[account_index + 1] = sync_account THEN <<>>
        ELSE << <<account_index, accounts[account_index + 1]>> >>)
       \o AnnotateFrom(accounts, account_index + 1, sync_account)

AccountsAnnotatedList(accounts, sync_account) ==
  (IF sync_account # "" THEN << <<kAccountIndexUseOAuth2, sync_account>> >> ELSE <<>>)
  \o AnnotateFrom(accounts, 0, sync_account)

\* LogRegisterErrorToWeb / LogRegisterDoneToWeb / LogInfoErrorToWeb
LogRegisterErrorAsInfoError(error) == Call("local_discovery.infoFailed", <<error>>)

LogRegisterErrorToWeb(error) == Call("local_discovery.registrationFailed", <<error>>)

LogRegisterDoneAsError(id) == Call("local_discovery.registrationFailed", <<id>>)

LogRegisterDoneToWeb(id) == Call("local_discovery.registrationSuccess", <<id>>)

LogInfoErrorToWeb(error) == Call("local_discovery.infoFailed", <<error>>)

OnServiceUpdate(name, value) == Call("local_discovery.onServiceUpdate", <<name, value>>)

\* the calls on collaborators
CreatePrivetHTTP(name, address) == Call("PrivetHTTPAsynchronousFactory::CreatePrivetHTTP",
                                        <<name, address>>)

AccountManagerStart(url, index) == Call("CloudPrintAccountManager::Start", <<url, index>>)

ConfirmFlowStart(auth, user_index, xsrf_token, url) ==
  Call("PrivetConfirmApiCallFlow::Start", <<auth, user_index, xsrf_token, url>>)

\* -------------------------------------------------------------------- Init
NoMon == [stage |-> 0, log |-> <<>>, superseded |-> FALSE, events |-> <<>>,
          updates |-> <<>>, recovery |-> 0, cause |-> "", removed |-> FALSE,
          terminal |-> <<>>, flow_mine |-> FALSE, manager_mine |-> FALSE,
          token_mine |-> FALSE, confirmed_mine |-> FALSE, token_device |-> ""]

Init ==
  /\ device_descriptions_ = [n \in {} |-> DefaultDescription]
  /\ current_register_device_ = ""
  /\ current_register_user_index_ \in UserIndexes   \* no constructor initializes it
  /\ xsrf_token_for_primary_user_ = ""
  /\ privet_lister_ \in {"null", "mock"}            \* default ctor / ctor taking a lister
  /\ privet_http_factory_ = "null"
  /\ privet_resolution_ = NULL
  /\ current_http_client_ = NULL
  /\ current_register_operation_ = NULL
  /\ current_info_operation_ = NULL
  /\ cloud_print_account_manager_ = NULL
  /\ confirm_api_call_flow_ = NULL
  /\ heap = [i \in {} |-> NULL]
  /\ collab = [lister_created |-> 0, factory_created |-> 0, lister_started |-> FALSE]
  /\ handlers = [h \in HandlerIds |-> [life |-> "unborn", is_visible_ |-> FALSE]]
  /\ g_num_visible = 0
  /\ crashed = FALSE
  /\ nRequests = 0
  /\ last = Ran("ctor", [none |-> TRUE])
  /\ web_ui = <<>>
  /\ calls = <<>>
  /\ mon = NoMon

\* A null scoped_ptr is dereferenced: the process dies in this handler.
Crash(ran) ==
  /\ crashed' = TRUE
  /\ last' = ran
  /\ web_ui' = <<>>
  /\ calls' = <<>>
  /\ UNCHANGED <<device_descriptions_, session, ptrs, disc, vis, heap, nRequests>>

\* -------------------------------------------------------- operator requests
HandleStart ==
  /\ ~crashed
  /\ IF privet_lister_ = "null"
       THEN /\ privet_lister_' = "impl"
            /\ privet_http_factory_' = "impl"
            /\ collab' = [lister_created |-> collab.lister_created + 1,
                          factory_created |-> collab.factory_created + 1,
                          lister_started |-> TRUE]
       ELSE /\ UNCHANGED <<privet_lister_, privet_http_factory_>>
            /\ collab' = [collab EXCEPT !.lister_started = TRUE]
  /\ last' = Ran("HandleStart", [none |-> TRUE])
  /\ web_ui' = <<>>
  /\ calls' = <<Call("PrivetDeviceLister::Start", <<>>),
                Call("PrivetDeviceLister::DiscoverNewDevices", <<FALSE>>)>>
  /\ UNCHANGED <<device_descriptions_, session, ptrs, vis, heap, nRequests, crashed>>

\* (a handler that resolves the account chosen last instead of the primary one)
HandleRegisterDeviceLastIndex(device_name) ==
  /\ ~crashed
  /\ nRequests' = nRequests + 1
  /\ current_register_device_' = device_name
     \* GetCloudPrintBaseUrl(device_name): device_descriptions_[device_name].url
  /\ device_descriptions_' = MapIndex(device_descriptions_, device_name)
  /\ LET url == device_descriptions_'[device_name].url
         h == Delete(heap, cloud_print_account_manager_)
         id == NewId(h, "account")
     IN /\ heap' = New(h, id, CloudPrintAccountManager(url, current_register_user_index_,
                                                       "OnCloudPrintAccountsResolved", ""))
        /\ cloud_print_account_manager_' = id
        /\ calls' = <<AccountManagerStart(url, current_register_user_index_)>>
  /\ last' = Ran("HandleRegisterDevice", [device_name |-> device_name])
  /\ web_ui' = <<>>
  /\ UNCHANGED <<current_register_user_index_, xsrf_token_for_primary_user_,
                 privet_resolution_, current_http_client_, current_register_operation_,
                 current_info_operation_, confirm_api_call_flow_, disc, vis, crashed>>

HandleRegisterDevice(device_name) ==
  /\ ~crashed
  /\ nRequests' = nRequests + 1
  /\ current_register_device_' = device_name
     \* GetCloudPrintBaseUrl(device_name): device_descriptions_[device_name].url
  /\ device_descriptions_' = MapIndex(device_descriptions_, device_name)
  /\ LET url == device_descriptions_'[device_name].url
         h == Delete(heap, cloud_print_account_manager_)
         id == NewId(h, "account")
     IN /\ heap' = New(h, id, CloudPrintAccountManager(url, 0,
                                                       "OnCloudPrintAccountsResolved", ""))
        /\ cloud_print_account_manager_' = id
        /\ calls' = <<AccountManagerStart(url, 0)>>
  /\ last' = Ran("HandleRegisterDevice", [device_name |-> device_name])
  /\ web_ui' = <<>>
  /\ UNCHANGED <<current_register_user_index_, xsrf_token_for_primary_user_,
                 privet_resolution_, current_http_client_, current_register_operation_,
                 current_info_operation_, confirm_api_call_flow_, disc, vis, crashed>>

HandleInfoRequested(device_name) ==
  /\ ~crashed
  /\ IF privet_http_factory_ = "null"
       THEN Crash(Ran("HandleInfoRequested", [device_name |-> device_name]))
       ELSE /\ nRequests' = nRequests + 1
            /\ device_descriptions_' = MapIndex(device_descriptions_, device_name)
            /\ LET address == <<device_descriptions_'[device_name].host,
                                device_descriptions_'[device_name].port>>
                   h == Delete(heap, privet_resolution_)
                   id == NewId(h, "resolution")
               IN /\ heap' = New(h, id, PrivetHTTPResolution(device_name, address,
                                                             "StartInfoHTTP", ""))
                  /\ privet_resolution_' = id
                  /\ calls' = <<CreatePrivetHTTP(device_name, address)>>
            /\ last' = Ran("HandleInfoRequested", [device_name |-> device_name])
            /\ web_ui' = <<>>
            /\ UNCHANGED <<session, current_http_client_, current_register_operation_,
                           current_info_operation_, cloud_print_account_manager_,
                           confirm_api_call_flow_, disc, vis, crashed>>

\* (a handler that takes no account choice while a register operation is in place)
HandleChooseUserIfIdle(index, user) ==
  /\ ~crashed
  /\ IF current_register_operation_ # NULL
       THEN /\ nRequests' = nRequests + 1
            /\ last' = Ran("HandleChooseUser", [index |-> index, user |-> user])
            /\ web_ui' = <<>>
            /\ calls' = <<>>
            /\ UNCHANGED <<device_descriptions_, session, ptrs, disc, vis, heap, crashed>>
     ELSE IF privet_http_factory_ = "null"
       THEN Crash(Ran("HandleChooseUser", [index |-> index, user |-> user]))
       ELSE /\ nRequests' = nRequests + 1
            /\ current_register_user_index_' = index
            /\ device_descriptions_' =
                 MapIndex(device_descriptions_, current_register_device_)
            /\ LET address == <<device_descriptions_'[current_register_device_].host,
                                device_descriptions_'[current_register_device_].port>>
                   h == Delete(heap, privet_resolution_)
                   id == NewId(h, "resolution")
               IN /\ heap' = New(h, id, PrivetHTTPResolution(current_register_device_,
                                                             address, "StartRegisterHTTP",
                                                             user))
                  /\ privet_resolution_' = id
                  /\ calls' = <<CreatePrivetHTTP(current_register_device_, address)>>
            /\ last' = Ran("HandleChooseUser", [index |-> index, user |-> user])
            /\ web_ui' = <<>>
            /\ UNCHANGED <<current_register_device_, xsrf_token_for_primary_user_,
                           current_http_client_, current_register_operation_,
                           current_info_operation_, cloud_print_account_manager_,
                           confirm_api_call_flow_, disc, vis, crashed>>

HandleChooseUser(index, user) ==
  /\ ~crashed
  /\ IF privet_http_factory_ = "null"
       THEN Crash(Ran("HandleChooseUser", [index |-> index, user |-> user]))
       ELSE /\ nRequests' = nRequests + 1
            /\ current_register_user_index_' = index
            /\ device_descriptions_' =
                 MapIndex(device_descriptions_, current_register_device_)
            /\ LET address == <<device_descriptions_'[current_register_device_].host,
                                device_descriptions_'[current_register_device_].port>>
                   h == Delete(heap, privet_resolution_)
                   id == NewId(h, "resolution")
               IN /\ heap' = New(h, id, PrivetHTTPResolution(current_register_device_,
                                                             address, "StartRegisterHTTP",
                                                             user))
                  /\ privet_resolution_' = id
                  /\ calls' = <<CreatePrivetHTTP(current_register_device_, address)>>
            /\ last' = Ran("HandleChooseUser", [index |-> index, user |-> user])
            /\ web_ui' = <<>>
            /\ UNCHANGED <<current_register_device_, xsrf_token_for_primary_user_,
                           current_http_client_, current_register_operation_,
                           current_info_operation_, cloud_print_account_manager_,
                           confirm_api_call_flow_, disc, vis, crashed>>

\* ------------------------------------------------------ resolution callbacks
\* The resolution r completes and runs the bound StartRegisterHTTP(user, http_client);
\* http_client is a fresh client on success and null on failure.
StartRegisterHTTP(r, resolved) ==
  /\ ~crashed
  /\ r \in Live("resolution", "pending")
  /\ heap[r].callback = "StartRegisterHTTP"
  /\ last' = Ran("StartRegisterHTTP", [user |-> heap[r].user, resolved |-> resolved,
                                       name |-> heap[r].name])
  /\ IF ~resolved
       THEN \* swap with null: the previous client dies with the argument
            /\ current_http_client_' = NULL
            /\ heap' = Delete(Done(heap, r), current_http_client_)
            /\ web_ui' = <<LogRegisterErrorToWeb("Resolution failed")>>
            /\ calls' = <<>>
            /\ UNCHANGED current_register_operation_
       ELSE LET h1 == Delete(Delete(Done(heap, r), current_http_client_),
                             current_register_operation_)
                client == NewId(h1, "client")
                h2 == New(h1, client, PrivetHTTPClient(heap[r].name))
                op == NewId(h2, "register")
            IN /\ current_http_client_' = client
               /\ current_register_operation_' = op
               /\ heap' = New(h2, op, PrivetRegisterOperation(heap[r].user, heap[r].name))
               /\ web_ui' = <<>>
               /\ calls' = <<Call("PrivetHTTPClient::CreateRegisterOperation",
                                  <<heap[r].user>>),
                             Call("PrivetRegisterOperation::Start", <<>>)>>
  /\ UNCHANGED <<device_descriptions_, session, privet_resolution_, current_info_operation_,
                 cloud_print_account_manager_, confirm_api_call_flow_, disc, vis,
                 nRequests, crashed>>

StartInfoHTTP(r, resolved) ==
  /\ ~crashed
  /\ r \in Live("resolution", "pending")
  /\ heap[r].callback = "StartInfoHTTP"
  /\ last' = Ran("StartInfoHTTP", [resolved |-> resolved, name |-> heap[r].name])
  /\ IF ~resolved
       THEN /\ current_http_client_' = NULL
            /\ heap' = Delete(Done(heap, r), current_http_client_)
            /\ web_ui' = <<LogRegisterErrorToWeb("Resolution failed")>>
            /\ calls' = <<>>
            /\ UNCHANGED current_info_operation_
       ELSE LET h1 == Delete(Delete(Done(heap, r), current_http_client_),
                             current_info_operation_)
                client == NewId(h1, "client")
                h2 == New(h1, client, PrivetHTTPClient(heap[r].name))
                op == NewId(h2, "info")
            IN /\ current_http_client_' = client
               /\ current_info_operation_' = op
               /\ heap' = New(h2, op, PrivetInfoOperation(heap[r].name))
               /\ web_ui' = <<>>
               /\ calls' = <<Call("PrivetHTTPClient::CreateInfoOperation", <<>>),
                             Call("PrivetInfoOperation::Start", <<>>)>>
  /\ UNCHANGED <<device_descriptions_, session, privet_resolution_,
                 current_register_operation_, cloud_print_account_manager_,
                 confirm_api_call_flow_, disc, vis, nRequests, crashed>>

\* ------------------------------------------------ register operation callbacks
\* which way OnPrivetRegisterClaimToken goes
ClaimTokenBranchNoDeviceCheck(present, user_index, has_token_service) ==
  IF user_index = kAccountIndexUseOAuth2
    THEN (IF ~has_token_service THEN "no_token_service" ELSE "oauth2")
  ELSE IF user_index = 0 THEN "cookie" ELSE "secondary"

ClaimTokenBranch(present, user_index, has_token_service) ==
  IF ~present THEN "no_device"
  ELSE IF user_index = kAccountIndexUseOAuth2
    THEN (IF ~has_token_service THEN "no_token_service" ELSE "oauth2")
  ELSE IF user_index = 0 THEN "cookie" ELSE "secondary"

\* GetForProfile is asked for the token service on the OAuth2 path only.
TokenServiceCases(user_index) ==
  IF user_index = kAccountIndexUseOAuth2 THEN BOOLEAN ELSE {TRUE}

\* The register operation o delivers its claim token.  has_token_service: whether
\* ProfileOAuth2TokenServiceFactory::GetForProfile returns a service.
OnPrivetRegisterClaimToken(o, token, has_token_service) ==
  /\ ~crashed
  /\ o \in Live("register", "started")
  /\ IF current_http_client_ = NULL
       THEN Crash(Ran("OnPrivetRegisterClaimToken",
                      [token |-> token, has_token_service |-> has_token_service,
                       op_name |-> heap[o].name]))
       ELSE
         LET name == heap[current_http_client_].name
             \* GetCloudPrintBaseUrl(name): device_descriptions_[name].url
             descriptions == MapIndex(device_descriptions_, name)
             base_url == descriptions[name].url
             automated_claim_url == kPrivetAutomatedClaimURLFormat(base_url, token)
             branch == ClaimTokenBranch(MapHas(device_descriptions_, name),
                                        current_register_user_index_, has_token_service)
             h == SetSt(heap, o, "waiting")
         IN
         /\ last' = Ran("OnPrivetRegisterClaimToken",
                        [token |-> token, has_token_service |-> has_token_service,
                         op_name |-> heap[o].name])
         /\ CASE branch = "no_device" ->
                   /\ web_ui' = <<LogRegisterErrorToWeb("Device no longer exists")>>
                   /\ calls' = <<>>
                   /\ heap' = h
                   /\ UNCHANGED <<device_descriptions_, cloud_print_account_manager_,
                                  confirm_api_call_flow_>>
              [] branch = "no_token_service" ->
                   /\ web_ui' = <<LogRegisterErrorToWeb("Could not get token service")>>
                   /\ calls' = <<>>
                   /\ heap' = h
                   /\ device_descriptions_' = descriptions
                   /\ UNCHANGED <<cloud_print_account_manager_, confirm_api_call_flow_>>
              [] branch = "oauth2" ->
                   LET h1 == Delete(h, confirm_api_call_flow_)
                       id == NewId(h1, "confirm")
                   IN /\ heap' = New(h1, id,
                                     PrivetConfirmApiCallFlow("oauth2", kAccountIndexUseOAuth2,
                                                              "", automated_claim_url))
                      /\ confirm_api_call_flow_' = id
                      /\ web_ui' = <<>>
                      /\ calls' = <<ConfirmFlowStart("oauth2", kAccountIndexUseOAuth2, "",
                                                     automated_claim_url)>>
                      /\ device_descriptions_' = descriptions
                      /\ UNCHANGED cloud_print_account_manager_
              [] branch = "cookie" ->
                   \* StartCookieConfirmFlow(current_register_user_index_,
                   \*                        xsrf_token_for_primary_user_, url)
                   LET h1 == Delete(h, confirm_api_call_flow_)
                       id == NewId(h1, "confirm")
                   IN /\ heap' = New(h1, id,
                                     PrivetConfirmApiCallFlow("cookie",
                                                              current_register_user_index_,
                                                              xsrf_token_for_primary_user_,
                                                              automated_claim_url))
                      /\ confirm_api_call_flow_' = id
                      /\ web_ui' = <<>>
                      /\ calls' = <<ConfirmFlowStart("cookie", current_register_user_index_,
                                                     xsrf_token_for_primary_user_,
                                                     automated_claim_url)>>
                      /\ device_descriptions_' = descriptions
                      /\ UNCHANGED cloud_print_account_manager_
              [] branch = "secondary" ->
                   LET h1 == Delete(h, cloud_print_account_manager_)
                       id == NewId(h1, "account")
                   IN /\ heap' = New(h1, id,
                                     CloudPrintAccountManager(base_url,
                                                              current_register_user_index_,
                                                              "OnXSRFTokenForSecondaryAccount",
                                                              automated_claim_url))
                      /\ cloud_print_account_manager_' = id
                      /\ web_ui' = <<>>
                      /\ calls' = <<AccountManagerStart(base_url,
                                                        current_register_user_index_)>>
                      /\ device_descriptions_' = descriptions
                      /\ UNCHANGED confirm_api_call_flow_
         /\ UNCHANGED <<session, privet_resolution_,
                        current_http_client_, current_register_operation_,
                        current_info_operation_, disc, vis, nRequests, crashed>>

OnPrivetRegisterError(o, reason) ==
  /\ ~crashed
  /\ o \in Live("register", "started") \cup Live("register", "completing")
  /\ heap' = SetSt(heap, o, "failed")
  /\ web_ui' = <<LogRegisterErrorToWeb("Registration error")>>
  /\ calls' = <<>>
  /\ last' = Ran("OnPrivetRegisterError", [reason |-> reason, op_name |-> heap[o].name])
  /\ UNCHANGED <<device_descriptions_, session, ptrs, disc, vis, nRequests, crashed>>

\* (a handler that forgets current_http_client_.reset())
OnPrivetRegisterDoneKeepsClient(o, device_id) ==
  /\ ~crashed
  /\ o \in Live("register", "completing")
  /\ heap' = Delete(Done(heap, o), current_register_operation_)
  /\ current_register_operation_' = NULL
  /\ web_ui' = <<LogRegisterDoneToWeb(device_id)>>
  /\ calls' = <<>>
  /\ last' = Ran("OnPrivetRegisterDone", [device_id |-> device_id, op_name |-> heap[o].name])
  /\ UNCHANGED <<device_descriptions_, session, privet_resolution_, current_http_client_,
                 current_info_operation_, cloud_print_account_manager_,
                 confirm_api_call_flow_, disc, vis, nRequests, crashed>>

OnPrivetRegisterDone(o, device_id) ==
  /\ ~crashed
  /\ o \in Live("register", "completing")
  /\ heap' = Delete(Delete(Done(heap, o), current_register_operation_),
                    current_http_client_)
  /\ current_register_operation_' = NULL
  /\ current_http_client_' = NULL
  /\ web_ui' = <<LogRegisterDoneToWeb(device_id)>>
  /\ calls' = <<>>
  /\ last' = Ran("OnPrivetRegisterDone", [device_id |-> device_id, op_name |-> heap[o].name])
  /\ UNCHANGED <<device_descriptions_, session, privet_resolution_, current_info_operation_,
                 cloud_print_account_manager_, confirm_api_call_flow_, disc, vis,
                 nRequests, crashed>>

\* PrivetRegisterOperation::CompleteRegistration: the operation goes on to finish.
CompleteRegistration(h, op) ==
  IF h[op].st \in {"started", "waiting"} THEN SetSt(h, op, "completing") ELSE h

\* PrivetConfirmApiCallFlow::Status, as OnConfirmDone tests it
ConfirmSucceeded(status) == status = "SUCCESS"

OnConfirmDone(c, status) ==
  /\ ~crashed
  /\ c \in Live("confirm", "pending")
  /\ IF ConfirmSucceeded(status)
       THEN IF current_register_operation_ = NULL
            THEN Crash(Ran("OnConfirmDone", [status |-> status, auth |-> heap[c].auth]))
            ELSE /\ heap' = CompleteRegistration(
                              Delete(Done(heap, c), confirm_api_call_flow_),
                              current_register_operation_)
                 /\ confirm_api_call_flow_' = NULL
                 /\ last' = Ran("OnConfirmDone", [status |-> status, auth |-> heap[c].auth])
                 /\ web_ui' = <<>>
                 /\ calls' = <<Call("PrivetRegisterOperation::CompleteRegistration", <<>>)>>
                 /\ UNCHANGED <<device_descriptions_, session, privet_resolution_,
                                current_http_client_, current_register_operation_,
                                current_info_operation_, cloud_print_account_manager_, disc,
                                vis, nRequests, crashed>>
       ELSE /\ heap' = Done(heap, c)
            /\ web_ui' = <<LogRegisterErrorToWeb("Confirm error")>>
            /\ calls' = <<>>
            /\ last' = Ran("OnConfirmDone", [status |-> status, auth |-> heap[c].auth])
            /\ UNCHANGED <<device_descriptions_, session, ptrs, disc, vis, nRequests,
                           crashed>>

\* ----------------------------------------------------------- info operation
\* (a handler that tests the status alone and renders whatever came with it)
OnPrivetInfoDoneIgnoresPayload(o, http_code, json_value) ==
  /\ ~crashed
  /\ o \in Live("info", "started")
  /\ heap' = Done(heap, o)
  /\ web_ui' = <<IF http_code # HTTP_OK
                   THEN LogInfoErrorToWeb("HTTP error " \o ToString(http_code))
                   ELSE Call("local_discovery.renderInfo", <<json_value>>)>>
  /\ calls' = <<>>
  /\ last' = Ran("OnPrivetInfoDone", [http_code |-> http_code, json_value |-> json_value])
  /\ UNCHANGED <<device_descriptions_, session, ptrs, disc, vis, nRequests, crashed>>

OnPrivetInfoDone(o, http_code, json_value) ==
  /\ ~crashed
  /\ o \in Live("info", "started")
  /\ heap' = Done(heap, o)
  /\ web_ui' = <<IF http_code # HTTP_OK \/ json_value = "null"
                   THEN LogInfoErrorToWeb("HTTP error " \o ToString(http_code))
                   ELSE Call("local_discovery.renderInfo", <<json_value>>)>>
  /\ calls' = <<>>
  /\ last' = Ran("OnPrivetInfoDone", [http_code |-> http_code, json_value |-> json_value])
  /\ UNCHANGED <<device_descriptions_, session, ptrs, disc, vis, nRequests, crashed>>

\* ------------------------------------------------- account manager callbacks
\* sync_account: what GetSyncAccount() returns ("" without a signin manager).
OnCloudPrintAccountsResolved(a, accounts, xsrf_token, sync_account) ==
  /\ ~crashed
  /\ a \in Live("account", "pending")
  /\ heap[a].callback = "OnCloudPrintAccountsResolved"
  /\ heap' = Done(heap, a)
  /\ xsrf_token_for_primary_user_' = xsrf_token
  /\ web_ui' = <<Call("local_discovery.requestUser",
                      <<AccountsAnnotatedList(accounts, sync_account)>>)>>
  /\ calls' = <<>>
  /\ last' = Ran("OnCloudPrintAccountsResolved",
                 [accounts |-> accounts, xsrf_token |-> xsrf_token,
                  sync_account |-> sync_account])
  /\ UNCHANGED <<device_descriptions_, current_register_device_,
                 current_register_user_index_, ptrs, disc, vis, nRequests, crashed>>

\* (a handler that keeps the secondary account's token as the primary one)
OnXSRFTokenForSecondaryAccountCaches(a, accounts, xsrf_token) ==
  /\ ~crashed
  /\ a \in Live("account", "pending")
  /\ heap[a].callback = "OnXSRFTokenForSecondaryAccount"
  /\ LET h1 == Delete(Done(heap, a), confirm_api_call_flow_)
         id == NewId(h1, "confirm")
     IN \* StartCookieConfirmFlow(current_register_user_index_, xsrf_token, url)
        /\ heap' = New(h1, id, PrivetConfirmApiCallFlow("cookie",
                                                        current_register_user_index_,
                                                        xsrf_token, heap[a].claim_url))
        /\ confirm_api_call_flow_' = id
        /\ calls' = <<ConfirmFlowStart("cookie", current_register_user_index_, xsrf_token,
                                       heap[a].claim_url)>>
  /\ xsrf_token_for_primary_user_' = xsrf_token
  /\ web_ui' = <<>>
  /\ last' = Ran("OnXSRFTokenForSecondaryAccount",
                 [xsrf_token |-> xsrf_token, index |-> heap[a].index])
  /\ UNCHANGED <<device_descriptions_, current_register_device_,
                 current_register_user_index_, privet_resolution_, current_http_client_,
                 current_register_operation_, current_info_operation_,
                 cloud_print_account_manager_, disc, vis, nRequests, crashed>>

OnXSRFTokenForSecondaryAccount(a, accounts, xsrf_token) ==
  /\ ~crashed
  /\ a \in Live("account", "pending")
  /\ heap[a].callback = "OnXSRFTokenForSecondaryAccount"
  /\ LET h1 == Delete(Done(heap, a), confirm_api_call_flow_)
         id == NewId(h1, "confirm")
     IN \* StartCookieConfirmFlow(current_register_user_index_, xsrf_token, url)
        /\ heap' = New(h1, id, PrivetConfirmApiCallFlow("cookie",
                                                        current_register_user_index_,
                                                        xsrf_token, heap[a].claim_url))
        /\ confirm_api_call_flow_' = id
        /\ calls' = <<ConfirmFlowStart("cookie", current_register_user_index_, xsrf_token,
                                       heap[a].claim_url)>>
  /\ web_ui' = <<>>
  /\ last' = Ran("OnXSRFTokenForSecondaryAccount",
                 [xsrf_token |-> xsrf_token, index |-> heap[a].index])
  /\ UNCHANGED <<device_descriptions_, session, privet_resolution_, current_http_client_,
                 current_register_operation_, current_info_operation_,
                 cloud_print_account_manager_, disc, vis, nRequests, crashed>>

\* ---------------------------------------------------------- discovery events
\* PrivetDeviceLister::Delegate; the lister delivers events once it is started.
DeviceChanged(added, name, description) ==
  /\ ~crashed
  /\ collab.lister_started
  /\ device_descriptions_' = MapAssign(device_descriptions_, name, description)
  /\ web_ui' = <<OnServiceUpdate(name, ServiceInfo(description))>>
  /\ calls' = <<>>
  /\ last' = Ran("DeviceChanged", [name |-> name, description |-> description])
  /\ UNCHANGED <<session, ptrs, disc, vis, heap, nRequests, crashed>>

\* (a handler that also forgets the device under registration when it goes)
DeviceRemovedForgetsDevice(name) ==
  /\ ~crashed
  /\ collab.lister_started
  /\ device_descriptions_' = MapErase(device_descriptions_, name)
  /\ current_register_device_' =
       IF current_register_device_ = name THEN "" ELSE current_register_device_
  /\ web_ui' = <<OnServiceUpdate(name, NullValue)>>
  /\ calls' = <<>>
  /\ last' = Ran("DeviceRemoved", [name |-> name])
  /\ UNCHANGED <<current_register_user_index_, xsrf_token_for_primary_user_, ptrs, disc,
                 vis, heap, nRequests, crashed>>

DeviceRemoved(name) ==
  /\ ~crashed
  /\ collab.lister_started
  /\ device_descriptions_' = MapErase(device_descriptions_, name)
  /\ web_ui' = <<OnServiceUpdate(name, NullValue)>>
  /\ calls' = <<>>
  /\ last' = Ran("DeviceRemoved", [name |-> name])
  /\ UNCHANGED <<session, ptrs, disc, vis, heap, nRequests, crashed>>

\* ---------------------------------------------------------------- visibility
\* SetIsVisible, as the new (is_visible_, g_num_visible) pair
SetIsVisible(is_visible, num_visible, visible) ==
  IF visible # is_visible
    THEN <<visible, num_visible + (IF visible THEN 1 ELSE -1)>>
    ELSE <<is_visible, num_visible>>

GetHasVisible == g_num_visible # 0

\* The default constructor sets is_visible_(false); the constructor taking a lister
\* leaves is_visible_ uninitialized.
Construct(h, with_lister, garbage) ==
  /\ handlers[h].life = "unborn"
  /\ handlers' = [handlers EXCEPT ![h] = [life |-> "live",
                                          is_visible_ |-> IF with_lister THEN garbage
                                                          ELSE FALSE]]
  /\ last' = Ran("Construct", [h |-> h, with_lister |-> with_lister])
  /\ web_ui' = <<>>
  /\ calls' = <<>>
  /\ UNCHANGED <<registration, g_num_visible>>

HandleIsVisible(h, is_visible) ==
  /\ handlers[h].life = "live"
  /\ LET r == SetIsVisible(handlers[h].is_visible_, g_num_visible, is_visible)
     IN /\ handlers' = [handlers EXCEPT ![h].is_visible_ = r[1]]
        /\ g_num_visible' = r[2]
  /\ last' = Ran("HandleIsVisible", [h |-> h, is_visible |-> is_visible])
  /\ web_ui' = <<>>
  /\ calls' = <<>>
  /\ UNCHANGED registration

Destruct(h) ==
  /\ handlers[h].life = "live"
  /\ LET r == SetIsVisible(handlers[h].is_visible_, g_num_visible, FALSE)
     IN /\ handlers' = [handlers EXCEPT ![h] = [life |-> "dead", is_visible_ |-> r[1]]]
        /\ g_num_visible' = r[2]
  /\ last' = Ran("Destruct", [h |-> h])
  /\ web_ui' = <<>>
  /\ calls' = <<>>
  /\ UNCHANGED registration

\* ----------------------------------------------------------------- observers
\* What a run has shown so far, for the properties that span several handlers.
\*   stage, log: how far the run is along the successful registration
\*     registerDevice(known device) -> accounts resolved -> chooseUser(-1) -> client
\*     resolved -> claim token (token service there) -> bearer confirm SUCCESS -> done,
\*     each step right after the other, and the registration calls on web_ui since
\*     the request;
\*   superseded: whether a register request for another device has arrived while
\*     the register operation still in place was waiting to deliver its claim token;
\*   events, updates: in a discovery run, the lister's events so far and the
\*     onServiceUpdate calls so far;
\*   recovery, cause: how far the run is along a registration that starts right
\*     after a failure notification (its message in cause):
\*     1 failure notified -> 2 registerDevice(known device) -> 3 accounts resolved ->
\*     4 chooseUser(any index) -> 5 client resolved -> claim token (token service
\*     there) -> [7 account manager call for a secondary index -> its token ->]
\*     6 confirm flow started -> 8 confirm SUCCESS -> 9 done, each step right after
\*     the other;
\*   removed: whether the lister has reported the device under registration gone
\*     since the register request and has not reported it again;
\*   terminal: the registration calls put on web_ui for the attempt whose register
\*     operation is in place, by the operation's callbacks and by the confirm flow
\*     its claim token led to;
\*   flow_mine, manager_mine: whether the confirm flow, the secondary account
\*     manager call in place was started for the register operation in place;
\*   token_mine, confirmed_mine: whether the register operation in place has
\*     delivered its claim token, whether a confirm flow started for it has
\*     reported SUCCESS and CompleteRegistration was called on it.
RegistrationCalls(w) ==
  SelectSeq(w, LAMBDA c : c.fn \in {"local_discovery.registrationFailed",
                                    "local_discovery.registrationSuccess"})

StageAfter(m) ==
  LET h == last'.h
      a == last'.args
  IN IF crashed' THEN 0
     ELSE IF h = "HandleRegisterDevice" /\ a.device_name \in DOMAIN device_descriptions_
       THEN 1
     ELSE IF m.stage = 1 /\ h = "OnCloudPrintAccountsResolved" THEN 2
     ELSE IF m.stage = 2 /\ h = "HandleChooseUser" /\ a.index = kAccountIndexUseOAuth2 THEN 3
     ELSE IF m.stage = 3 /\ h = "StartRegisterHTTP" /\ a.resolved THEN 4
     ELSE IF m.stage = 4 /\ h = "OnPrivetRegisterClaimToken" /\ a.has_token_service THEN 5
     ELSE IF m.stage = 5 /\ h = "OnConfirmDone" /\ a.status = "SUCCESS" /\ a.auth = "oauth2"
       THEN 6
     ELSE IF m.stage = 6 /\ h = "OnPrivetRegisterDone" THEN 7
     ELSE 0

SupersededAfter(m) ==
  LET h == last'.h
      a == last'.args
      op == current_register_operation_
  IN IF h = "HandleRegisterDevice"
       THEN \/ m.superseded
            \/ /\ op # NULL
               /\ heap[op].st = "started"
               /\ heap[op].name \notin {"", a.device_name}
     ELSE IF h = "OnPrivetRegisterDone" \/ (h = "StartRegisterHTTP" /\ a.resolved) THEN FALSE
     ELSE m.superseded

Observe ==
  LET stage == StageAfter(mon)
  IN mon' = [mon EXCEPT !.stage = stage,
                        !.superseded = SupersededAfter(mon),
                        !.log = IF stage = 0 THEN <<>>
                                ELSE IF stage = 1 THEN RegistrationCalls(web_ui')
                                ELSE mon.log \o RegistrationCalls(web_ui')]

FailureCalls(w) ==
  SelectSeq(w, LAMBDA c : c.fn \in {"local_discovery.registrationFailed",
                                    "local_discovery.infoFailed"})

RecoveryAfter(m) ==
  LET h == last'.h
      a == last'.args
      k == m.recovery
  IN IF k = 1 /\ h = "HandleRegisterDevice" /\ a.device_name \in DOMAIN device_descriptions_
       THEN 2
     ELSE IF k = 2 /\ h = "OnCloudPrintAccountsResolved" THEN 3
     ELSE IF k = 3 /\ h = "HandleChooseUser" THEN 4
     ELSE IF k = 4 /\ h = "StartRegisterHTTP" /\ a.resolved THEN 5
     ELSE IF k = 5 /\ h = "OnPrivetRegisterClaimToken" /\ a.has_token_service
       THEN (IF current_register_user_index_ \in {kAccountIndexUseOAuth2, 0} THEN 6 ELSE 7)
     ELSE IF k = 7 /\ h = "OnXSRFTokenForSecondaryAccount" THEN 6
     ELSE IF k = 6 /\ h = "OnConfirmDone" /\ a.status = "SUCCESS" THEN 8
     ELSE IF k = 8 /\ h = "OnPrivetRegisterDone" THEN 9
     ELSE IF FailureCalls(web_ui') # <<>> THEN 1
     ELSE 0

\* Past MaxRequests a run goes on only along that registration.
ObserveRecovery ==
  LET k == RecoveryAfter(mon)
  IN /\ nRequests' <= MaxRequests \/ k \in 2..9
     /\ mon' = [mon EXCEPT !.recovery = k,
                           !.cause = IF k = 0 THEN ""
                                     ELSE IF k = 1 THEN FailureCalls(web_ui')[1].args[1]
                                     ELSE mon.cause]

RemovedAfter(m) ==
  LET h == last'.h
      a == last'.args
  IN IF h = "HandleRegisterDevice" THEN FALSE
     ELSE IF h = "DeviceRemoved" /\ a.name = current_register_device_ THEN TRUE
     ELSE IF h = "DeviceChanged" /\ a.name = current_register_device_ THEN FALSE
     ELSE m.removed

ManagerMineAfter(m) ==
  LET h == last'.h
  IN IF h = "OnPrivetRegisterClaimToken"
       THEN (m.manager_mine /\ cloud_print_account_manager_' = cloud_print_account_manager_)
            \/ (\E k \in 1..Len(calls') : calls'[k].fn = "CloudPrintAccountManager::Start")
     ELSE IF h = "HandleRegisterDevice" \/ (h = "StartRegisterHTTP" /\ last'.args.resolved)
       THEN FALSE
     ELSE m.manager_mine

FlowMineAfter(m) ==
  LET h == last'.h
      started == \E k \in 1..Len(calls') : calls'[k].fn = "PrivetConfirmApiCallFlow::Start"
  IN IF h = "OnPrivetRegisterClaimToken" /\ started THEN TRUE
     ELSE IF h = "OnXSRFTokenForSecondaryAccount" THEN m.manager_mine
     ELSE IF h = "StartRegisterHTTP" /\ last'.args.resolved THEN FALSE
     ELSE m.flow_mine

TerminalAfter(m) ==
  LET h == last'.h
  IN IF h = "StartRegisterHTTP" /\ last'.args.resolved THEN <<>>
     ELSE IF h \in {"OnPrivetRegisterClaimToken", "OnPrivetRegisterError",
                    "OnPrivetRegisterDone"}
            \/ (h = "OnConfirmDone" /\ m.flow_mine)
       THEN m.terminal \o RegistrationCalls(web_ui')
     ELSE m.terminal

TokenMineAfter(m) ==
  LET h == last'.h
  IN IF h = "StartRegisterHTTP" /\ last'.args.resolved THEN FALSE
     ELSE IF h = "OnPrivetRegisterClaimToken" /\ ~crashed' THEN TRUE
     ELSE m.token_mine

ConfirmedMineAfter(m) ==
  LET h == last'.h
  IN IF h = "StartRegisterHTTP" /\ last'.args.resolved THEN FALSE
     ELSE IF /\ h = "OnConfirmDone"
             /\ last'.args.status = "SUCCESS"
             /\ m.flow_mine
             /\ calls' = <<Call("PrivetRegisterOperation::CompleteRegistration", <<>>)>>
       THEN TRUE
     ELSE m.confirmed_mine

\* The device of the register request whose primary-account resolution delivered
\* the cached XSRF token: HandleRegisterDevice stores the device and starts the
\* resolution in one step, and a later register request deletes the manager of
\* the earlier one, so the resolution that completes is the one started for
\* current_register_device_.
TokenDeviceAfter(m) ==
  IF last'.h = "OnCloudPrintAccountsResolved" THEN current_register_device_
  ELSE m.token_device

ObserveAttempt ==
  mon' = [mon EXCEPT !.removed = RemovedAfter(mon),
                     !.token_device = TokenDeviceAfter(mon),
                     !.terminal = TerminalAfter(mon),
                     !.flow_mine = FlowMineAfter(mon),
                     !.manager_mine = ManagerMineAfter(mon),
                     !.token_mine = TokenMineAfter(mon),
                     !.confirmed_mine = ConfirmedMineAfter(mon)]

ObserveDiscovery ==
  mon' = [mon EXCEPT !.events = IF last'.h \in {"DeviceChanged", "DeviceRemoved"}
                                  THEN Append(mon.events, last') ELSE mon.events,
                     !.updates = mon.updates \o web_ui']

\* ---------------------------------------------------------- specifications
\* The handler of one page: requests, collaborator callbacks, discovery events.
Next ==
  \/ HandleStart /\ Observe
  \/ (nRequests < MaxRequests /\ \E device_name \in Names : HandleRegisterDevice(device_name))
     /\ Observe
  \/ (nRequests < MaxRequests /\ \E device_name \in Names : HandleInfoRequested(device_name))
     /\ Observe
  \/ (nRequests < MaxRequests
      /\ \E index \in UserIndexes, user \in Users : HandleChooseUser(index, user))
     /\ Observe
  \/ (\E r \in DOMAIN heap, resolved \in BOOLEAN : StartRegisterHTTP(r, resolved)) /\ Observe
  \/ (\E r \in DOMAIN heap, resolved \in BOOLEAN : StartInfoHTTP(r, resolved)) /\ Observe
  \/ (\E o \in DOMAIN heap, token \in Tokens,
         has_token_service \in TokenServiceCases(current_register_user_index_) :
        OnPrivetRegisterClaimToken(o, token, has_token_service)) /\ Observe
  \/ (\E o \in DOMAIN heap, reason \in FailureReasons : OnPrivetRegisterError(o, reason))
     /\ Observe
  \/ (\E o \in DOMAIN heap, device_id \in DeviceIds : OnPrivetRegisterDone(o, device_id))
     /\ Observe
  \/ (\E c \in DOMAIN heap, status \in ConfirmStatuses : OnConfirmDone(c, status)) /\ Observe
  \/ (\E o \in DOMAIN heap, http_code \in HttpCodes, json_value \in JsonValues :
        OnPrivetInfoDone(o, http_code, json_value)) /\ Observe
  \/ (\E a \in DOMAIN heap, accounts \in AccountLists, xsrf_token \in XsrfTokens,
         sync_account \in SyncAccounts :
        OnCloudPrintAccountsResolved(a, accounts, xsrf_token, sync_account)) /\ Observe
  \/ (\E a \in DOMAIN heap, accounts \in AccountLists, xsrf_token \in XsrfTokens :
        OnXSRFTokenForSecondaryAccount(a, accounts, xsrf_token)) /\ Observe
  \/ (\E added \in BOOLEAN, name \in Listed :
        DeviceChanged(added, name, DescriptionOf(name))) /\ Observe
  \/ (\E name \in Listed : DeviceRemoved(name)) /\ Observe

Spec == Init /\ [][Next]_vars

\* The same handler, watched for what follows a failure notification; the two
\* requests of a registration that starts right after one are let through past
\* MaxRequests.
NextRecovery ==
  \/ HandleStart /\ ObserveRecovery
  \/ (\E device_name \in Names :
        /\ \/ nRequests < MaxRequests
           \/ /\ mon.recovery = 1
              /\ device_name \in DOMAIN device_descriptions_
              /\ nRequests < MaxRequests + RecoveryRequests - 1
        /\ HandleRegisterDevice(device_name))
     /\ ObserveRecovery
  \/ (nRequests < MaxRequests /\ \E device_name \in Names : HandleInfoRequested(device_name))
     /\ ObserveRecovery
  \/ (/\ \/ nRequests < MaxRequests
          \/ (mon.recovery = 3 /\ nRequests < MaxRequests + RecoveryRequests)
      /\ \E index \in UserIndexes, user \in Users : HandleChooseUser(index, user))
     /\ ObserveRecovery
  \/ (\E r \in DOMAIN heap, resolved \in BOOLEAN : StartRegisterHTTP(r, resolved)) /\ ObserveRecovery
  \/ (\E r \in DOMAIN heap, resolved \in BOOLEAN : StartInfoHTTP(r, resolved)) /\ ObserveRecovery
  \/ (\E o \in DOMAIN heap, token \in Tokens,
         has_token_service \in TokenServiceCases(current_register_user_index_) :
        OnPrivetRegisterClaimToken(o, token, has_token_service)) /\ ObserveRecovery
  \/ (\E o \in DOMAIN heap, reason \in FailureReasons : OnPrivetRegisterError(o, reason))
     /\ ObserveRecovery
  \/ (\E o \in DOMAIN heap, device_id \in DeviceIds : OnPrivetRegisterDone(o, device_id))
     /\ ObserveRecovery
  \/ (\E c \in DOMAIN heap, status \in ConfirmStatuses : OnConfirmDone(c, status)) /\ ObserveRecovery
  \/ (\E o \in DOMAIN heap, http_code \in HttpCodes, json_value \in JsonValues :
        OnPrivetInfoDone(o, http_code, json_value)) /\ ObserveRecovery
  \/ (\E a \in DOMAIN heap, accounts \in AccountLists, xsrf_token \in XsrfTokens,
         sync_account \in SyncAccounts :
        OnCloudPrintAccountsResolved(a, accounts, xsrf_token, sync_account)) /\ ObserveRecovery
  \/ (\E a \in DOMAIN heap, accounts \in AccountLists, xsrf_token \in XsrfTokens :
        OnXSRFTokenForSecondaryAccount(a, accounts, xsrf_token)) /\ ObserveRecovery
  \/ (\E added \in BOOLEAN, name \in Listed :
        DeviceChanged(added, name, DescriptionOf(name))) /\ ObserveRecovery
  \/ (\E name \in Listed : DeviceRemoved(name)) /\ ObserveRecovery

SpecRecovery == Init /\ [][NextRecovery]_vars

\* The same handler, watched for what happens to one registration attempt.
NextAttempt ==
  \/ HandleStart /\ ObserveAttempt
  \/ (nRequests < MaxRequests /\ \E device_name \in Names : HandleRegisterDevice(device_name))
     /\ ObserveAttempt
  \/ (nRequests < MaxRequests /\ \E device_name \in Names : HandleInfoRequested(device_name))
     /\ ObserveAttempt
  \/ (nRequests < MaxRequests
      /\ \E index \in UserIndexes, user \in Users : HandleChooseUser(index, user))
     /\ ObserveAttempt
  \/ (\E r \in DOMAIN heap, resolved \in BOOLEAN : StartRegisterHTTP(r, resolved)) /\ ObserveAttempt
  \/ (\E r \in DOMAIN heap, resolved \in BOOLEAN : StartInfoHTTP(r, resolved)) /\ ObserveAttempt
  \/ (\E o \in DOMAIN heap, token \in Tokens,
         has_token_service \in TokenServiceCases(current_register_user_index_) :
        OnPrivetRegisterClaimToken(o, token, has_token_service)) /\ ObserveAttempt
  \/ (\E o \in DOMAIN heap, reason \in FailureReasons : OnPrivetRegisterError(o, reason))
     /\ ObserveAttempt
  \/ (\E o \in DOMAIN heap, device_id \in DeviceIds : OnPrivetRegisterDone(o, device_id))
     /\ ObserveAttempt
  \/ (\E c \in DOMAIN heap, status \in ConfirmStatuses : OnConfirmDone(c, status)) /\ ObserveAttempt
  \/ (\E o \in DOMAIN heap, http_code \in HttpCodes, json_value \in JsonValues :
        OnPrivetInfoDone(o, http_code, json_value)) /\ ObserveAttempt
  \/ (\E a \in DOMAIN heap, accounts \in AccountLists, xsrf_token \in XsrfTokens,
         sync_account \in SyncAccounts :
        OnCloudPrintAccountsResolved(a, accounts, xsrf_token, sync_account)) /\ ObserveAttempt
  \/ (\E a \in DOMAIN heap, accounts \in AccountLists, xsrf_token \in XsrfTokens :
        OnXSRFTokenForSecondaryAccount(a, accounts, xsrf_token)) /\ ObserveAttempt
  \/ (\E added \in BOOLEAN, name \in Listed :
        DeviceChanged(added, name, DescriptionOf(name))) /\ ObserveAttempt
  \/ (\E name \in Listed : DeviceRemoved(name)) /\ ObserveAttempt

SpecAttempt == Init /\ [][NextAttempt]_vars

\* The registry alone: the lister's events, any device, any description.
NextDiscovery ==
  \/ Len(mon.events) < MaxEvents /\ HandleStart /\ ObserveDiscovery
  \/ /\ Len(mon.events) < MaxEvents
     /\ \E added \in BOOLEAN, name \in Names, description \in Descriptions :
          DeviceChanged(added, name, description)
     /\ ObserveDiscovery
  \/ /\ Len(mon.events) < MaxEvents
     /\ \E name \in Names : DeviceRemoved(name)
     /\ ObserveDiscovery

SpecDiscovery == Init /\ [][NextDiscovery]_vars

\* The account choice: register requests and their primary account resolutions,
\* over every resolver list and signed-in account.
NextAccounts ==
  \/ (nRequests < MaxRequests /\ \E device_name \in Names : HandleRegisterDevice(device_name))
     /\ UNCHANGED mon
  \/ (\E a \in DOMAIN heap, accounts \in AllAccountLists, xsrf_token \in XsrfTokens,
         sync_account \in AllSyncAccounts :
        OnCloudPrintAccountsResolved(a, accounts, xsrf_token, sync_account))
     /\ UNCHANGED mon

SpecAccounts == Init /\ [][NextAccounts]_vars

\* The visibility count over the handlers of several pages.
NextVisible ==
  \/ /\ \E h \in HandlerIds, with_lister \in BOOLEAN, garbage \in BOOLEAN :
          Construct(h, with_lister, garbage)
     /\ UNCHANGED mon
  \/ (\E h \in HandlerIds, is_visible \in BOOLEAN : HandleIsVisible(h, is_visible))
     /\ UNCHANGED mon
  \/ (\E h \in HandlerIds : Destruct(h)) /\ UNCHANGED mon

SpecVisible == Init /\ [][NextVisible]_vars

\* ------------------------------------------------------------- properties
Kinds == {"resolution", "client", "register", "info", "account", "confirm"}

\* the scoped_ptr member that holds objects of a kind
Ref(kind) ==
  CASE kind = "resolution" -> privet_resolution_
    [] kind = "client" -> current_http_client_
    [] kind = "register" -> current_register_operation_
    [] kind = "info" -> current_info_operation_
    [] kind = "account" -> cloud_print_account_manager_
    [] kind = "confirm" -> confirm_api_call_flow_

\* the confirm flows and account manager calls a handler started
FlowStarts(c) ==
  SelectSeq(c, LAMBDA x : x.fn \in {"PrivetConfirmApiCallFlow::Start",
                                    "CloudPrintAccountManager::Start"})

\* the claim token handler finds the device of the client it holds gone
DeviceGone ==
  /\ current_http_client_ # NULL
  /\ heap[current_http_client_].name \notin DOMAIN device_descriptions_

\* C1: a run that goes, step after step, register request for a device of the
\* registry -> primary accounts resolved -> chooseUser(-1) -> client resolved ->
\* claim token -> bearer confirm flow SUCCESS -> OnPrivetRegisterDone(deviceId)
\* has put, since the request, exactly one registrationSuccess(deviceId) and no
\* registrationFailed on web_ui, and ends with no register operation and no
\* device client.
C1_EndToEndSuccess ==
  mon.stage = 7 =>
    /\ mon.log = <<Call("local_discovery.registrationSuccess", <<last.args.device_id>>)>>
    /\ current_register_operation_ = NULL
    /\ current_http_client_ = NULL
    /\ Objects("register") = {}
    /\ Objects("client") = {}

C1_Witness ==
  /\ mon.stage = 7
  /\ last.h = "OnPrivetRegisterDone"
  /\ last.args.device_id = "dev-42"

\* C2: once a register request for another device has arrived while the register
\* operation was waiting to deliver its claim token, a callback of that operation
\* (claim token, error, done) puts nothing on web_ui, starts no account manager
\* call and no confirm flow, and changes no session state.
C2_SupersededCallbackIgnored ==
  [][(/\ mon.superseded
      /\ last'.h \in {"OnPrivetRegisterClaimToken", "OnPrivetRegisterError",
                      "OnPrivetRegisterDone"})
     => /\ web_ui' = <<>>
        /\ calls' = <<>>
        /\ UNCHANGED <<session, cloud_print_account_manager_, confirm_api_call_flow_>>]_vars

C4_NoTokenService ==
  [][(/\ last'.h = "OnPrivetRegisterClaimToken"
      /\ current_register_user_index_ = kAccountIndexUseOAuth2
      /\ ~last'.args.has_token_service
      /\ ~DeviceGone)
     => /\ web_ui' = <<Call("local_discovery.registrationFailed",
                            <<"Could not get token service">>)>>
        /\ FlowStarts(calls') = <<>>
        /\ UNCHANGED confirm_api_call_flow_]_vars

\* C5: when OnPrivetRegisterClaimToken runs (the case of C3 set aside) with
\* current_register_user_index_ = 0, it starts the cookie confirm flow with index 0
\* and xsrf_token_for_primary_user_ and no account manager call; with an index
\* k > 0 it starts exactly one account manager call, for index k, and no confirm
\* flow.
C5_CookiePaths ==
  [][(/\ last'.h = "OnPrivetRegisterClaimToken"
      /\ current_register_user_index_ >= 0
      /\ ~DeviceGone)
     => /\ Len(calls') = 1
        /\ IF current_register_user_index_ = 0
             THEN /\ calls'[1].fn = "PrivetConfirmApiCallFlow::Start"
                  /\ calls'[1].args[1] = "cookie"
                  /\ calls'[1].args[2] = 0
                  /\ calls'[1].args[3] = xsrf_token_for_primary_user_
                  /\ UNCHANGED cloud_print_account_manager_
             ELSE /\ calls'[1].fn = "CloudPrintAccountManager::Start"
                  /\ calls'[1].args[2] = current_register_user_index_
                  /\ UNCHANGED confirm_api_call_flow_]_vars

\* the index of the last event of a device name in a discovery run (0: none)
LastEvent(events, name) ==
  LET at == {k \in 1..Len(events) : events[k].args.name = name}
  IN IF at = {} THEN 0 ELSE CHOOSE k \in at : \A j \in at : j <= k

\* C6: after any sequence of DeviceChanged and DeviceRemoved events the registry
\* holds exactly the names whose last event was a DeviceChanged, each with the
\* description of that event.
C6_RegistryIsLastEventPerName ==
  /\ DOMAIN device_descriptions_ =
       {n \in Names : /\ LastEvent(mon.events, n) # 0
                      /\ mon.events[LastEvent(mon.events, n)].h = "DeviceChanged"}
  /\ \A n \in DOMAIN device_descriptions_ :
       device_descriptions_[n] = mon.events[LastEvent(mon.events, n)].args.description

C6_Witness ==
  \E n \in Names, m \in Names, i \in 1..Len(mon.events), j \in 1..Len(mon.events) :
    /\ i < j /\ j = LastEvent(mon.events, n) /\ n # m
    /\ mon.events[i].h = "DeviceChanged" /\ mon.events[i].args.name = n
    /\ mon.events[j].h = "DeviceChanged"
    /\ mon.events[i].args.description # mon.events[j].args.description
    /\ LastEvent(mon.events, m) # 0
    /\ mon.events[LastEvent(mon.events, m)].h = "DeviceRemoved"
    /\ n \in DOMAIN device_descriptions_ /\ m \notin DOMAIN device_descriptions_

\* C7: the onServiceUpdate calls of a discovery run are, one per event and in the
\* order of the events, onServiceUpdate(name, info of the description) for a
\* DeviceChanged and onServiceUpdate(name, null) for a DeviceRemoved, also of a
\* name the registry does not hold.
C7_OneUpdatePerEventInOrder ==
  /\ Len(mon.updates) = Len(mon.events)
  /\ \A k \in 1..Len(mon.events) :
       LET e == mon.events[k]
           u == mon.updates[k]
       IN /\ u.fn = "local_discovery.onServiceUpdate"
          /\ u.args[1] = e.args.name
          /\ IF e.h = "DeviceRemoved" THEN u.args[2] = [null |-> TRUE]
             ELSE /\ DOMAIN u.args[2] =
                       {"domain", "port", "ip", "lastSeen", "registered"}
                  /\ u.args[2].domain = e.args.description.host
                  /\ u.args[2].port = e.args.description.port
                  /\ u.args[2].registered = (e.args.description.id # "")

C7_Witness ==
  /\ Len(mon.events) = MaxEvents
  /\ mon.events[1].h = "DeviceRemoved"
  /\ mon.events[2].h = "DeviceChanged" /\ mon.events[2].args.description.id # ""
  /\ mon.events[3].h = "DeviceRemoved" /\ mon.events[3].args.name = mon.events[2].args.name
  /\ mon.events[4].h = "DeviceChanged" /\ mon.events[4].args.name # mon.events[2].args.name
  /\ Len(mon.updates) = MaxEvents

\* C8: in every reachable state there is at most one resolution, one client, one
\* register operation, one info operation, one account manager call and one
\* confirm flow, the one its scoped_ptr holds: what it replaced is gone.
C8_AtMostOnePerKind == \A kind \in Kinds : Objects(kind) \subseteq {Ref(kind)}

C8_Witness ==
  /\ \A kind \in Kinds : Objects(kind) # {}
  /\ last.h = "StartInfoHTTP"
  /\ last.args.resolved

\* C9: OnConfirmDone with SUCCESS resets confirm_api_call_flow_, calls
\* CompleteRegistration on the current register operation and puts no
\* registration call on web_ui; with any other status it puts exactly
\* registrationFailed("Confirm error") on web_ui and calls nothing.
C9_ConfirmResult ==
  [][last'.h = "OnConfirmDone"
     => IF last'.args.status = "SUCCESS"
          THEN /\ confirm_api_call_flow_' = NULL
               /\ calls' = <<Call("PrivetRegisterOperation::CompleteRegistration", <<>>)>>
               /\ web_ui' = <<>>
          ELSE /\ web_ui' = <<Call("local_discovery.registrationFailed",
                                   <<"Confirm error">>)>>
               /\ calls' = <<>>]_vars

\* C10: OnPrivetRegisterDone(device_id) resets current_register_operation_ and
\* current_http_client_, leaving no register operation and no client, puts exactly
\* registrationSuccess(device_id) on web_ui, and leaves the registry,
\* current_register_device_, current_register_user_index_ and
\* xsrf_token_for_primary_user_ as they were.
C10_RegisterDone ==
  [][last'.h = "OnPrivetRegisterDone"
     => /\ current_register_operation_' = NULL
        /\ current_http_client_' = NULL
        /\ \A i \in DOMAIN heap' : heap'[i].kind \notin {"register", "client"}
        /\ web_ui' = <<Call("local_discovery.registrationSuccess",
                            <<last'.args.device_id>>)>>
        /\ UNCHANGED <<device_descriptions_, session>>]_vars

C10_Witness ==
  /\ last.h = "OnPrivetRegisterDone"
  /\ web_ui = <<Call("local_discovery.registrationSuccess", <<"dev-42">>)>>
  /\ current_register_operation_ = NULL
  /\ DOMAIN device_descriptions_ # {}

\* C11: OnPrivetRegisterError, whatever the failure reason, puts exactly
\* registrationFailed("Registration error") on web_ui and retries nothing: it
\* calls no collaborator, creates no object and leaves every scoped_ptr as it was.
C11_RegistrationError ==
  [][last'.h = "OnPrivetRegisterError"
     => /\ web_ui' = <<Call("local_discovery.registrationFailed",
                            <<"Registration error">>)>>
        /\ calls' = <<>>
        /\ DOMAIN heap' = DOMAIN heap
        /\ UNCHANGED ptrs]_vars

C11_Witness ==
  /\ last.h = "OnPrivetRegisterError"
  /\ last.args.reason = "FAILURE_HTTP_ERROR"
  /\ web_ui = <<Call("local_discovery.registrationFailed", <<"Registration error">>)>>
  /\ privet_resolution_ # NULL
  /\ confirm_api_call_flow_ # NULL

\* the list requestUser got from the handler that ran last
Offered == web_ui[1].args[1]

\* its entries that come from the resolver's list: all but the signed-in entry
OfferedFromList ==
  IF last.args.sync_account # "" THEN Tail(Offered) ELSE Offered

\* C12: when the primary account resolution completes with list L and signed-in
\* account s, requestUser gets: (-1, s) if s is not empty, then (i, L[i]) for
\* every position i (from 0) with L[i] # s, in order of i.
C12_OfferedAccounts ==
  last.h = "OnCloudPrintAccountsResolved" =>
    LET L == last.args.accounts
        s == last.args.sync_account
        positions == [i \in 1..Len(L) |-> <<i - 1, L[i]>>]
    IN /\ Len(web_ui) = 1
       /\ web_ui[1].fn = "local_discovery.requestUser"
       /\ Offered = (IF s # "" THEN << <<-1, s>> >> ELSE <<>>)
                    \o SelectSeq(positions, LAMBDA e : e[2] # s)

C12_Witness ==
  /\ last.h = "OnCloudPrintAccountsResolved"
  /\ last.args.accounts = <<"a@x", "b@x", "a@x">>
  /\ last.args.sync_account = "a@x"
  /\ Offered = << <<-1, "a@x">>, <<1, "b@x">> >>

\* C13 as stated: no entry that comes from the resolver's list carries index 0,
\* and none carries the token-path index.
C13_IndexZeroNeverOffered ==
  last.h = "OnCloudPrintAccountsResolved" =>
    \A k \in 1..Len(OfferedFromList) :
      /\ OfferedFromList[k][1] # 0
      /\ OfferedFromList[k][1] # kAccountIndexUseOAuth2

\* C13: for every resolver list, no entry that comes from the list carries the
\* token-path index kAccountIndexUseOAuth2, and index 0 is carried by no account
\* but the first of the resolver's list, which is offered under it exactly when
\* it is not the signed-in account.
C13_IndexZeroIsFirstAccount ==
  last.h = "OnCloudPrintAccountsResolved" =>
    LET L == last.args.accounts
        s == last.args.sync_account
    IN /\ \A k \in 1..Len(OfferedFromList) :
            /\ OfferedFromList[k][1] # kAccountIndexUseOAuth2
            /\ OfferedFromList[k][1] = 0 => Len(L) > 0 /\ OfferedFromList[k][2] = L[1]
       /\ (\E k \in 1..Len(OfferedFromList) : OfferedFromList[k][1] = 0)
            <=> (Len(L) > 0 /\ L[1] # s)

C13_Witness ==
  /\ last.h = "OnCloudPrintAccountsResolved"
  /\ last.args.accounts = <<"b@x", "a@x">>
  /\ last.args.sync_account = "a@x"
  /\ Offered = << <<-1, "a@x">>, <<0, "b@x">> >>

\* C14: over any number of HandleStart calls the lister and the factory are each
\* created at most once, after a call both exist, every call issues exactly one
\* PrivetDeviceLister::Start and one DiscoverNewDevices, and the call leaves the
\* registry, the session fields, the scoped_ptrs of the registration and their
\* objects as they were.
C14_StartIdempotent ==
  [][last'.h = "HandleStart"
     => /\ collab'.lister_created <= 1
        /\ collab'.factory_created <= 1
        /\ privet_lister_' # "null"
        /\ privet_http_factory_' # "null"
        /\ calls' = <<Call("PrivetDeviceLister::Start", <<>>),
                      Call("PrivetDeviceLister::DiscoverNewDevices", <<FALSE>>)>>
        /\ UNCHANGED <<device_descriptions_, session, ptrs, heap>>]_vars

\* C15: in every state reached by constructing coordinators, toggling their
\* visibility and destroying them, g_num_visible is the number of live
\* coordinators whose is_visible_ is true, it is not negative, and GetHasVisible
\* is true exactly when some live coordinator is visible.
C15_VisibleCount ==
  LET visible == {h \in HandlerIds : handlers[h].life = "live" /\ handlers[h].is_visible_}
  IN /\ g_num_visible = Cardinality(visible)
     /\ g_num_visible >= 0
     /\ GetHasVisible <=> visible # {}

\* C16: every response of an info operation puts exactly one call on web_ui:
\* renderInfo(payload) if the status is HTTP_OK and a payload came with it,
\* infoFailed("HTTP error <status>") otherwise; it is never a registration call,
\* and the handler calls no collaborator and leaves the registry, the session
\* fields and every scoped_ptr as they were.
C16_InfoResponse ==
  [][last'.h = "OnPrivetInfoDone"
     => LET http_code == last'.args.http_code
            json_value == last'.args.json_value
        IN /\ web_ui' = << IF http_code = HTTP_OK /\ json_value # "null"
                             THEN Call("local_discovery.renderInfo", <<json_value>>)
                             ELSE Call("local_discovery.infoFailed",
                                       <<"HTTP error " \o ToString(http_code)>>) >>
           /\ RegistrationCalls(web_ui') = <<>>
           /\ calls' = <<>>
           /\ UNCHANGED <<device_descriptions_, session, ptrs>>]_vars

C16_Witness ==
  /\ last.h = "OnPrivetInfoDone"
  /\ last.args.http_code = HTTP_OK
  /\ last.args.json_value = "null"
  /\ web_ui = <<Call("local_discovery.infoFailed", <<"HTTP error 200">>)>>
  /\ current_register_operation_ # NULL

\* the register operations that still owe the coordinator a callback
InFlightRegister(h) ==
  {i \in DOMAIN h : h[i].kind = "register" /\ h[i].st \in {"started", "waiting", "completing"}}

\* C17: when StartRegisterHTTP gets no client, web_ui gets exactly
\* registrationFailed("Resolution failed"), no register operation is created or
\* started, and no register operation is left in flight.
C17_RegisterResolutionFailed ==
  [][(last'.h = "StartRegisterHTTP" /\ ~last'.args.resolved)
     => /\ web_ui' = <<Call("local_discovery.registrationFailed",
                            <<"Resolution failed">>)>>
        /\ calls' = <<>>
        /\ \A i \in DOMAIN heap' :
             heap'[i].kind = "register" => i \in DOMAIN heap /\ heap'[i] = heap[i]
        /\ InFlightRegister(heap') = {}]_vars

\* C18: when StartInfoHTTP gets no client, web_ui gets a single call carrying
\* "Resolution failed", no info operation is created or started, and a
\* registration whose operation is in flight is as it was: current_http_client_,
\* current_register_operation_, their objects and the session fields.
C18_InfoResolutionFailed ==
  [][(last'.h = "StartInfoHTTP" /\ ~last'.args.resolved)
     => /\ Len(web_ui') = 1
        /\ web_ui'[1].args = <<"Resolution failed">>
        /\ calls' = <<>>
        /\ \A i \in DOMAIN heap' :
             heap'[i].kind = "info" => i \in DOMAIN heap /\ heap'[i] = heap[i]
        /\ current_register_operation_ \in InFlightRegister(heap)
             => /\ UNCHANGED <<current_http_client_, current_register_operation_, session>>
                /\ \A i \in DOMAIN heap :
                     heap[i].kind \in {"client", "register"}
                       => i \in DOMAIN heap' /\ heap'[i] = heap[i]]_vars

\* C20 as stated: once a primary account resolution has set
\* xsrf_token_for_primary_user_, no later step changes it.
C20_CapturedOnce ==
  [][xsrf_token_for_primary_user_ # "" => UNCHANGED xsrf_token_for_primary_user_]_vars

\* C20: xsrf_token_for_primary_user_ is set by the completion of every primary
\* account resolution, to the token that resolution brought, and no other step
\* (a register request, a secondary account resolution, a confirm result, an
\* operation callback, a discovery event) changes it.
C20_CapturedAtEachPrimaryResolution ==
  [][IF last'.h = "OnCloudPrintAccountsResolved"
       THEN xsrf_token_for_primary_user_' = last'.args.xsrf_token
       ELSE UNCHANGED xsrf_token_for_primary_user_]_vars

C20_Witness ==
  /\ last.h = "OnCloudPrintAccountsResolved"
  /\ nRequests >= 2
  /\ last.args.xsrf_token = "x2"
  /\ xsrf_token_for_primary_user_ = "x2"
  /\ \E c \in Live("confirm", "pending") : heap[c].xsrf_token = "x1"

\* C19: in a run that goes, right after any failure notification, step after
\* step through a register request for a device of the registry, the primary
\* account resolution, chooseUser with any index, a resolved client, a claim
\* token (the token service there), the secondary account's token if the index
\* asks for one, confirm SUCCESS and OnPrivetRegisterDone, no step dies or puts
\* a registration call on web_ui before the last, after each step the collaborator
\* whose answer comes next is waiting to deliver it for the requested device, and
\* the last step puts exactly registrationSuccess on web_ui for that device's
\* operation.
C19_UsableAfterFailure ==
  LET k == mon.recovery
      d == current_register_device_
  IN /\ k \in 2..9 => ~crashed
     /\ k \in 2..8 => RegistrationCalls(web_ui) = <<>>
     /\ k = 2 => /\ cloud_print_account_manager_ \in Live("account", "pending")
                 /\ heap[cloud_print_account_manager_].callback
                      = "OnCloudPrintAccountsResolved"
     /\ k = 3 => privet_http_factory_ # "null"
     /\ k = 4 => /\ privet_resolution_ \in Live("resolution", "pending")
                 /\ heap[privet_resolution_].callback = "StartRegisterHTTP"
                 /\ heap[privet_resolution_].name = d
     /\ k = 5 => /\ current_register_operation_ \in Live("register", "started")
                 /\ heap[current_register_operation_].name = d
                 /\ current_http_client_ # NULL
                 /\ heap[current_http_client_].name = d
     /\ k = 7 => /\ cloud_print_account_manager_ \in Live("account", "pending")
                 /\ heap[cloud_print_account_manager_].callback
                      = "OnXSRFTokenForSecondaryAccount"
                 /\ heap[cloud_print_account_manager_].index = current_register_user_index_
     /\ k = 6 => /\ confirm_api_call_flow_ \in Live("confirm", "pending")
                 /\ heap[confirm_api_call_flow_].user_index = current_register_user_index_
                 /\ current_register_operation_ # NULL
     /\ k = 8 => current_register_operation_ \in Live("register", "completing")
     /\ k = 9 => /\ web_ui = <<Call("local_discovery.registrationSuccess",
                                    <<last.args.device_id>>)>>
                 /\ last.args.op_name = d

C19_Witness ==
  /\ mon.recovery = 9
  /\ mon.cause = "Resolution failed"
  /\ current_register_user_index_ = 2
  /\ last.h = "OnPrivetRegisterDone"
  /\ web_ui = <<Call("local_discovery.registrationSuccess", <<"dev-42">>)>>

\* C21: a lister event is taken in every state of a running coordinator, also
\* with a resolution, an operation, an account manager call or a confirm flow in
\* flight; DeviceChanged leaves the named device with the reported description,
\* DeviceRemoved leaves it out of device_descriptions_, and neither changes any
\* other entry, the session fields, a scoped_ptr or an object behind one.
C21_DiscoveryEventFrame ==
  /\ [](~crashed /\ collab.lister_started
          => \A name \in Listed :
               /\ ENABLED DeviceRemoved(name)
               /\ ENABLED DeviceChanged(TRUE, name, DescriptionOf(name)))
  /\ [][last'.h \in {"DeviceChanged", "DeviceRemoved"}
          => LET name == last'.args.name
             IN /\ IF last'.h = "DeviceChanged"
                     THEN /\ MapHas(device_descriptions_', name)
                          /\ device_descriptions_'[name] = last'.args.description
                     ELSE ~MapHas(device_descriptions_', name)
                /\ DOMAIN device_descriptions_' \ {name} = DOMAIN device_descriptions_ \ {name}
                /\ \A n \in DOMAIN device_descriptions_ \ {name} :
                     device_descriptions_'[n] = device_descriptions_[n]
                /\ UNCHANGED <<session, ptrs, heap>>]_vars

C21_Witness ==
  /\ last.h = "DeviceRemoved"
  /\ last.args.name = current_register_device_
  /\ current_register_operation_ \in InFlightRegister(heap)
  /\ confirm_api_call_flow_ \in Live("confirm", "pending")
  /\ current_info_operation_ \in Live("info", "started")
  /\ DOMAIN device_descriptions_ # {}

\* C22: once the lister has reported the device under registration gone, after
\* the register request, and has not reported it again, no handler starts a
\* confirm flow, and a claim token that arrives puts exactly
\* registrationFailed("Device no longer exists") on web_ui.
C22_RemovedDeviceNotConfirmed ==
  [][mon.removed /\ mon'.removed
       => /\ \A k \in 1..Len(calls') : calls'[k].fn # "PrivetConfirmApiCallFlow::Start"
          /\ last'.h = "OnPrivetRegisterClaimToken"
               => web_ui' = <<Call("local_discovery.registrationFailed",
                                   <<"Device no longer exists">>)>>]_vars

\* C23: the attempt whose register operation is in place has at most one
\* registration call on web_ui: never two registrationFailed, never a
\* registrationFailed and a registrationSuccess.
C23_OneTerminalNotification ==
  Len(mon.terminal) <= 1

\* C24: HandleRegisterDevice(name) sets current_register_device_ to name and
\* starts exactly one CloudPrintAccountManager call, with index 0 and the cloud
\* base URL of that device, and nothing else: no resolution, client, register
\* operation or confirm flow is created or dropped and web_ui gets nothing.
\* requestUser is put on web_ui by OnCloudPrintAccountsResolved only, once for
\* each completion of a primary account manager call.
C24_RegisterRequest ==
  [][/\ last'.h = "HandleRegisterDevice"
          => LET name == last'.args.device_name
                 url == IF MapHas(device_descriptions_, name)
                          THEN device_descriptions_[name].url ELSE ""
             IN /\ current_register_device_' = name
                /\ calls' = <<Call("CloudPrintAccountManager::Start", <<url, 0>>)>>
                /\ web_ui' = <<>>
                /\ cloud_print_account_manager_' \in DOMAIN heap'
                /\ heap'[cloud_print_account_manager_'].st = "pending"
                /\ heap'[cloud_print_account_manager_'].index = 0
                /\ UNCHANGED <<privet_resolution_, current_http_client_,
                               current_register_operation_, confirm_api_call_flow_>>
                /\ \A i \in DOMAIN heap \cup DOMAIN heap' :
                     (i \in DOMAIN heap /\ i \in DOMAIN heap' /\ heap'[i] = heap[i])
                     \/ (i \in DOMAIN heap /\ heap[i].kind = "account")
                     \/ (i \in DOMAIN heap' /\ heap'[i].kind = "account")
     /\ (\E k \in 1..Len(web_ui') : web_ui'[k].fn = "local_discovery.requestUser")
          <=> (last'.h = "OnCloudPrintAccountsResolved")
     /\ last'.h = "OnCloudPrintAccountsResolved"
          => /\ Len(web_ui') = 1
             /\ cloud_print_account_manager_ \in DOMAIN heap
             /\ heap[cloud_print_account_manager_].st = "pending"
             /\ heap[cloud_print_account_manager_].index = 0
             /\ heap'[cloud_print_account_manager_].st = "done"]_vars

C24_Witness ==
  /\ last.h = "OnCloudPrintAccountsResolved"
  /\ current_register_device_ = "p1"
  /\ MapHas(device_descriptions_, "p1")
  /\ device_descriptions_["p1"].url = "https://cp"
  /\ web_ui[1].fn = "local_discovery.requestUser"
  /\ current_register_operation_ \in InFlightRegister(heap)

\* C25: a claim token handled with current_register_user_index_ > 0 starts no
\* confirm flow; the flow is started when the account manager call for that
\* index completes, as a cookie flow with the index the call was made for and
\* the token it returned.
C25_SecondaryAccountFlow ==
  [][/\ (last'.h = "OnPrivetRegisterClaimToken" /\ current_register_user_index_ > 0)
          => \A k \in 1..Len(calls') : calls'[k].fn # "PrivetConfirmApiCallFlow::Start"
     /\ last'.h = "OnXSRFTokenForSecondaryAccount"
          => /\ Len(calls') = 1
             /\ calls'[1].fn = "PrivetConfirmApiCallFlow::Start"
             /\ calls'[1].args[1] = "cookie"
             /\ calls'[1].args[2] = last'.args.index
             /\ calls'[1].args[3] = last'.args.xsrf_token]_vars

\* C26: a handled claim token leads to at most one confirm flow, started by the
\* claim token handler or, for an index > 0, by the completion of the account
\* manager call it made: a bearer flow exactly when current_register_user_index_
\* was kAccountIndexUseOAuth2 when the token was handled, a cookie flow carrying
\* that index exactly when it was >= 0.
C26_ExclusiveConfirmPaths ==
  [][/\ last'.h = "OnPrivetRegisterClaimToken"
          => LET index == current_register_user_index_
                 flows == SelectSeq(calls', LAMBDA x : x.fn = "PrivetConfirmApiCallFlow::Start")
             IN /\ Len(flows) <= 1
                /\ Len(flows) = 1
                     => /\ flows[1].args[1] = "oauth2" <=> index = kAccountIndexUseOAuth2
                        /\ flows[1].args[1] = "cookie" <=> index >= 0
                        /\ flows[1].args[2] = index
                /\ (Len(flows) = 1 /\ index > 0) = FALSE
     /\ last'.h = "OnXSRFTokenForSecondaryAccount"
          => LET flows == SelectSeq(calls', LAMBDA x : x.fn = "PrivetConfirmApiCallFlow::Start")
             IN /\ Len(flows) = 1
                /\ flows[1].args[1] = "cookie"
                /\ flows[1].args[2] >= 0
                /\ flows[1].args[2] = last'.args.index]_vars

\* the secondary account manager calls that have not completed
PendingSecondary(h) ==
  {i \in DOMAIN h : /\ h[i].kind = "account"
                    /\ h[i].st = "pending"
                    /\ h[i].callback = "OnXSRFTokenForSecondaryAccount"}

\* C27: every confirm flow is started with the URL
\* <base URL> "/confirm?token=" <token>, of the base URL device_descriptions_ has,
\* when the claim token is handled, for the device of the client, and of the token
\* the operation delivered: by the claim token handler at once (bearer flow,
\* cookie flow of index 0), or by OnXSRFTokenForSecondaryAccount with the URL the
\* claim token handler bound to the account manager call, which nothing changes
\* in between.
C27_ClaimUrl ==
  [][LET flows == SelectSeq(calls', LAMBDA x : x.fn = "PrivetConfirmApiCallFlow::Start")
         claim_url == device_descriptions_[heap[current_http_client_].name].url
                        \o "/confirm?token=" \o last'.args.token
     IN /\ (last'.h = "OnPrivetRegisterClaimToken" /\ ~crashed')
             => /\ \A k \in 1..Len(flows) : flows[k].args[4] = claim_url
                /\ \A k \in 1..Len(calls') :
                     calls'[k].fn = "CloudPrintAccountManager::Start"
                       => /\ cloud_print_account_manager_' \in PendingSecondary(heap')
                          /\ heap'[cloud_print_account_manager_'].claim_url = claim_url
        /\ last'.h = "OnXSRFTokenForSecondaryAccount"
             => /\ Len(flows) = 1
                /\ flows[1].args[4] = heap[cloud_print_account_manager_].claim_url
        /\ flows # <<>>
             => last'.h \in {"OnPrivetRegisterClaimToken", "OnXSRFTokenForSecondaryAccount"}
        /\ \A i \in PendingSecondary(heap) \cap PendingSecondary(heap') :
             heap'[i].claim_url = heap[i].claim_url
                \/ last'.h = "OnPrivetRegisterClaimToken"]_vars

C27_Witness ==
  /\ last.h = "OnXSRFTokenForSecondaryAccount"
  /\ calls[1].args[4] = "/confirm?token=tok"
  /\ MapHas(device_descriptions_, current_register_device_)
  /\ device_descriptions_[current_register_device_].url = "https://cp"
  /\ current_http_client_ # NULL
  /\ heap[current_http_client_].name = current_register_device_

\* C28: whenever a claim token is handled, the device whose membership in
\* device_descriptions_ is tested and whose base URL goes into the claim URL,
\* the device of current_http_client_, is current_register_device_.
C28_ClaimTokenDevice ==
  [][(last'.h = "OnPrivetRegisterClaimToken" /\ ~crashed')
       => heap[current_http_client_].name = current_register_device_]_vars

\* C29: device_descriptions_ is changed by DeviceChanged and DeviceRemoved only:
\* every request handler and every collaborator callback leaves its names and
\* their descriptions as they were.
C29_RegistryOnlyByEvents ==
  [][last'.h \notin {"DeviceChanged", "DeviceRemoved"}
       => UNCHANGED device_descriptions_]_vars

\* C30: when registrationSuccess is put on web_ui, the register operation that
\* reports it has delivered its claim token, and a confirm flow started for it
\* has reported SUCCESS and CompleteRegistration was called on it; no success
\* for an attempt whose confirm flow failed or was never started.
C30_SuccessIsConfirmed ==
  (\E k \in 1..Len(web_ui) : web_ui[k].fn = "local_discovery.registrationSuccess")
    => /\ last.h = "OnPrivetRegisterDone"
       /\ mon.token_mine
       /\ mon.confirmed_mine

\* C32: in every state in which a register operation can still deliver its
\* claim token, current_http_client_ is not null.
C32_ClientForClaimToken ==
  (~crashed /\ Live("register", "started") # {}) => current_http_client_ # NULL

\* C33: in every state in which a confirm flow is in flight,
\* current_register_operation_ is not null.
C33_OperationForConfirm ==
  (~crashed /\ Live("confirm", "pending") # {}) => current_register_operation_ # NULL

\* C34: whenever a cookie confirm flow for index 0 is started, the XSRF token it
\* carries is set and was returned by the primary-account resolution of a
\* register request for the device whose claim token is being confirmed.
C34_PrimaryArtifactOfSameDevice ==
  [][(/\ last'.h = "OnPrivetRegisterClaimToken"
      /\ Len(calls') = 1
      /\ calls'[1].fn = "PrivetConfirmApiCallFlow::Start"
      /\ calls'[1].args[1] = "cookie"
      /\ calls'[1].args[2] = 0)
     => /\ calls'[1].args[3] # ""
        /\ mon'.token_device = last'.args.op_name]_vars

\* ------------------------------------------------- the handler under fairness
\* The steps of the collaborators: each one completes a request it was given.
ResolverCompletes ==
  /\ \/ \E r \in DOMAIN heap, resolved \in BOOLEAN : StartRegisterHTTP(r, resolved)
     \/ \E r \in DOMAIN heap, resolved \in BOOLEAN : StartInfoHTTP(r, resolved)
  /\ UNCHANGED mon

RegisterOperationCompletes ==
  /\ \/ \E o \in DOMAIN heap, token \in Tokens,
          has_token_service \in TokenServiceCases(current_register_user_index_) :
          OnPrivetRegisterClaimToken(o, token, has_token_service)
     \/ \E o \in DOMAIN heap, reason \in FailureReasons : OnPrivetRegisterError(o, reason)
     \/ \E o \in DOMAIN heap, device_id \in DeviceIds : OnPrivetRegisterDone(o, device_id)
  /\ UNCHANGED mon

ConfirmFlowCompletes ==
  /\ \E c \in DOMAIN heap, status \in ConfirmStatuses : OnConfirmDone(c, status)
  /\ UNCHANGED mon

AccountResolverCompletes ==
  /\ \/ \E a \in DOMAIN heap, accounts \in AccountLists, xsrf_token \in XsrfTokens,
          sync_account \in SyncAccounts :
          OnCloudPrintAccountsResolved(a, accounts, xsrf_token, sync_account)
     \/ \E a \in DOMAIN heap, accounts \in AccountLists, xsrf_token \in XsrfTokens :
          OnXSRFTokenForSecondaryAccount(a, accounts, xsrf_token)
  /\ UNCHANGED mon

InfoOperationCompletes ==
  /\ \E o \in DOMAIN heap, http_code \in HttpCodes, json_value \in JsonValues :
       OnPrivetInfoDone(o, http_code, json_value)
  /\ UNCHANGED mon

\* The requests of the page and the events of the lister come when they come.
NextLive ==
  \/ HandleStart /\ UNCHANGED mon
  \/ (nRequests < MaxRequests /\ \E device_name \in Names : HandleRegisterDevice(device_name))
     /\ UNCHANGED mon
  \/ (nRequests < MaxRequests /\ \E device_name \in Names : HandleInfoRequested(device_name))
     /\ UNCHANGED mon
  \/ (nRequests < MaxRequests
      /\ \E index \in UserIndexes, user \in Users : HandleChooseUser(index, user))
     /\ UNCHANGED mon
  \/ ResolverCompletes
  \/ RegisterOperationCompletes
  \/ ConfirmFlowCompletes
  \/ AccountResolverCompletes
  \/ InfoOperationCompletes
  \/ (\E added \in BOOLEAN, name \in Listed :
        DeviceChanged(added, name, DescriptionOf(name))) /\ UNCHANGED mon
  \/ (\E name \in Listed : DeviceRemoved(name)) /\ UNCHANGED mon

\* Every callback is a task posted to the one message loop of the handler: a
\* collaborator that has a request outstanding gets its turn.
Fairness ==
  /\ WF_vars(ResolverCompletes)
  /\ WF_vars(RegisterOperationCompletes)
  /\ WF_vars(ConfirmFlowCompletes)
  /\ WF_vars(AccountResolverCompletes)
  /\ WF_vars(InfoOperationCompletes)

SpecLive == Init /\ [][NextLive]_vars /\ Fairness

\* a registrationSuccess or registrationFailed notification is sent in this step
RegistrationNotified == RegistrationCalls(web_ui) # <<>>

\* C31: under fairness, every choose-account request that no later request of
\* the page follows is eventually followed by a registrationSuccess or a
\* registrationFailed notification.
C31_AttemptTerminates ==
  \A n \in 0..MaxRequests :
    (last.h = "HandleChooseUser" /\ nRequests = n) ~> (RegistrationNotified \/ nRequests # n)

====
